---------------------------- MODULE Spec2Model ----------------------------
(***************************************************************************)
(* Error Diffusion (ED) network of src/ed_reworked: the topology builder   *)
(* (init_network), the forward pass (calculate_output), the error          *)
(* diffusion (calculate_learning), the weight update (calculate_weight)    *)
(* and the epoch loop of main that drives them.                            *)
(*                                                                         *)
(* The program computes in C doubles.  The model computes in fixed point:  *)
(* an integer v stands for the real v / Unit, products and quotients are   *)
(* rounded to the nearest multiple of 1 / Unit, and sigmoid is the         *)
(* logistic function tabulated at that resolution.  The C arrays are       *)
(* zero-initialised globals of fixed size; the model keeps them as         *)
(* functions over the index ranges the bounds allow, zero outside the part *)
(* the program writes.                                                     *)
(***************************************************************************)
EXTENDS Integers, Sequences, FiniteSets, TLC

(***************************************************************************)
(* Bounds of the exploration.                                              *)
(***************************************************************************)
MaxHidden1 == 2
MaxHidden2 == 1
MaxEpochs == 2
OrderWindow == 2

\* Logical input features the user may ask for (main doubles the number).
InputChoices == {1, 2}
\* Output neurons, one sub-network each.
OutputChoices == {1, 2}
\* Seeds handed to srand.
SeedChoices == {1, 2}
\* Training patterns per epoch.
PatternChoices == {2}

MaxFeatures == CHOOSE m \in InputChoices : \A k \in InputChoices : k <= m
MaxOutput == CHOOSE m \in OutputChoices : \A k \in OutputChoices : k <= m
MaxPatterns == CHOOSE m \in PatternChoices : \A k \in PatternChoices : k <= m

(***************************************************************************)
(* Fixed-point reals.                                                      *)
(***************************************************************************)
Unit == 10
Half == Unit \div 2

Abs(x) == IF x < 0 THEN -x ELSE x

\* fabs of <math.h>
fabs(x) == Abs(x)

\* signage of ed_main.c
signage(x) == IF x > 0 THEN 1 ELSE IF x = 0 THEN 0 ELSE -1

\* a * b on doubles: the product, rounded to the nearest representable value
Mul(a, b) ==
    LET p == a * b
    IN  IF p >= 0 THEN (p + Unit \div 2) \div Unit
                  ELSE -((-p + Unit \div 2) \div Unit)

\* a / b on doubles (b # 0), rounded to the nearest representable value
Quot(a, b) ==
    LET n == a * Unit
        s == IF (n < 0) = (b < 0) THEN 1 ELSE -1
    IN  s * ((Abs(n) + Abs(b) \div 2) \div Abs(b))

\* 1 / (1 + exp(-t)) for t >= 0 at steps of 1 / Unit; it is 1 from t = 3 on
LogisticTable ==
    << 5, 5, 5, 6, 6, 6, 6, 7, 7, 7, 7, 8, 8, 8, 8, 8, 8, 8, 9, 9,
       9, 9, 9, 9, 9, 9, 9, 9, 9, 9 >>

\* A loop's state after an iteration, computed before the next iteration
\* starts (TLC evaluates an operator's arguments only on demand).
Computed(st) == st = st

Logistic(t) ==
    IF t >= Len(LogisticTable) THEN Unit
    ELSE IF t >= 0 THEN LogisticTable[t + 1]
    ELSE IF -t >= Len(LogisticTable) THEN 0
    ELSE Unit - LogisticTable[-t + 1]

(***************************************************************************)
(* Index ranges of the global arrays.                                      *)
(***************************************************************************)
NetIdx == 0 .. (MaxOutput - 1)
NeuronIdx == 0 .. (2 * MaxFeatures + 2 + MaxHidden1 + MaxHidden2)
PatternIdx == 0 .. (MaxPatterns - 1)
FeatureIdx == 0 .. (MaxFeatures - 1)
FlagIdx == {3, 6, 7, 10, 11}

VARIABLES
    \* ed_main.c globals
    size_input, size_output, size_hidden, size_hidden2, total_neurons,
    neuron_input, neuron_output, error_delta,
    weights, weights_oscillating,
    learning_rate, bias, sigmoid_steepness, error_amplification,
    error_total, error_residual, error_count,
    config_flags, init_range_weight, init_range_threshold,
    epoch_counter, loop_pattern, timesteps, pattern_type, pattern_count,
    input_pattern_global, target_pattern_global,
    \* user choice read by learning_pattern_generation
    pattern_gen_mode,
    \* state of the C library's rand()
    rand_state,
    \* position of main
    pc,
    \* operations calculate_network has completed in the current call
    phases_done,
    \* connections calculate_weight has still to visit, the matrix the nested
    \* loops produce, and whether a connection was visited ahead of an earlier
    \* one (used when the visiting order is left open)
    pending, weights_sequential, reordered

topology == << size_input, size_output, size_hidden, size_hidden2, total_neurons >>
parameters == << learning_rate, bias, sigmoid_steepness, error_amplification,
                 config_flags, init_range_weight, init_range_threshold,
                 timesteps, pattern_type, pattern_count, pattern_gen_mode,
                 error_residual >>
patterns == << input_pattern_global, target_pattern_global >>
activations == << neuron_input, neuron_output >>
counters == << error_total, error_count >>
ordering == << pending, weights_sequential, reordered >>

vars == << topology, parameters, patterns, activations, counters, ordering,
           error_delta, weights, weights_oscillating,
           epoch_counter, loop_pattern, rand_state, pc, phases_done >>

(***************************************************************************)
(* rand() and random().  rand() is implementation-defined; it is modelled  *)
(* as a 16-bit linear congruential generator seeded by srand(seed).        *)
(***************************************************************************)
RandModulus == 2 ^ 16

rand(state) == (state * 25173 + 13849) % RandModulus

\* (rand() % 10000) / 10000.0: a value in [0, 1)
random(state) == ((rand(state) % 10000) * Unit) \div 10000

(***************************************************************************)
(* learning_pattern_generation: the input patterns and their targets, in   *)
(* the order the loops draw from random().  A generation state is a record *)
(* [rng, inp, tgt].  Pattern types 3 (manual entry) and 5 (one-hot) are    *)
(* not offered by Init.                                                    *)
(***************************************************************************)
RECURSIVE CountActive(_, _, _)
\* number of inputs of pattern c among features s .. size_input / 2 - 1 above 0.5
CountActive(inp, c, s) ==
    IF s > size_input \div 2 - 1 THEN 0
    ELSE (IF inp[c][s] > Half THEN 1 ELSE 0) + CountActive(inp, c, s + 1)

Asymmetric(inp, c) ==
    \E s \in 0 .. (size_input \div 4 - 1) :
        inp[c][s] # inp[c][size_input \div 2 - 1 - s]

RECURSIVE GenInputs(_, _, _)
GenInputs(c, s, st) ==
    IF s > size_input \div 2 - 1 THEN st
    ELSE LET r == IF pattern_gen_mode = 0
                  THEN [st EXCEPT !.inp[c][s] =
                           IF (c \div (2 ^ s)) % 2 = 1 THEN Unit ELSE 0]
                  ELSE [st EXCEPT !.inp[c][s] = random(st.rng),
                                  !.rng = rand(st.rng)]
         IN  IF Computed(r) THEN GenInputs(c, s + 1, r) ELSE r

TargetOf(c, o, st) ==
    CASE pattern_type[o] = 0 ->
            [st EXCEPT !.tgt[c][o] = IF random(st.rng) > Half THEN Unit ELSE 0,
                       !.rng = rand(st.rng)]
      [] pattern_type[o] = 1 ->
            [st EXCEPT !.tgt[c][o] =
                IF CountActive(st.inp, c, 0) % 2 = 1 THEN Unit ELSE 0]
      [] pattern_type[o] = 2 ->
            [st EXCEPT !.tgt[c][o] = IF Asymmetric(st.inp, c) THEN 0 ELSE Unit]
      [] pattern_type[o] = 4 ->
            [st EXCEPT !.tgt[c][o] = random(st.rng), !.rng = rand(st.rng)]
      [] OTHER -> st

RECURSIVE GenTargets(_, _, _)
GenTargets(c, o, st) ==
    IF o > size_output - 1 THEN st
    ELSE LET r == TargetOf(c, o, st)
         IN  IF Computed(r) THEN GenTargets(c, o + 1, r) ELSE r

RECURSIVE GenPatterns(_, _)
GenPatterns(c, st) ==
    IF c > pattern_count - 1 THEN st
    ELSE LET i == GenInputs(c, 0, st)
             r == IF Computed(i) THEN GenTargets(c, 0, i) ELSE i
         IN  IF Computed(r) THEN GenPatterns(c + 1, r) ELSE r

(***************************************************************************)
(* init_network.  The polarity vector, then for every (target, source)     *)
(* pair the rules of the loop body in their order.  A connection state is  *)
(* a record [w, rng]: the weight so far and the state of rand().           *)
(***************************************************************************)
PolarityShifted(i) == IF i = size_input + 2 THEN 1 ELSE (i % 2) * 2 - 1

\* ((c_neuron + 1) % 2) * 2 - 1, and the output neuron forced to +1
Polarity(i) == IF i = size_input + 2 THEN 1 ELSE ((i + 1) % 2) * 2 - 1

\* a draw that calls rand() once more than random() does
DrawSkipping(range, st) ==
    [w |-> Mul(range, random(st.rng)), rng |-> rand(rand(st.rng))]

Draw(range, st) == [w |-> Mul(range, random(st.rng)), rng |-> rand(st.rng)]
Zero(st) == [st EXCEPT !.w = 0]

BiasConnection(st, c, s, tn) ==
    IF s < 2 THEN Draw(init_range_threshold, st) ELSE st

RegularConnection(st, c, s, tn) ==
    IF s > 1 THEN Draw(init_range_weight, st) ELSE st

SecondLayerInputOpen(st, c, s, tn) == st

SecondLayerInputBlocking(st, c, s, tn) ==
    IF c > tn + 1 - size_hidden2 /\ s < size_input + 2 /\ s >= 2
    THEN Zero(st) ELSE st

LoopCuttingOff(st, c, s, tn) == st

LoopCutting(st, c, s, tn) ==
    IF config_flags[6] = 1 /\ c # s /\ c > size_input + 2 /\ s > size_input + 1
    THEN Zero(st) ELSE st

LoopCuttingOutput(st, c, s, tn) ==
    IF config_flags[6] = 1 /\ c > size_input + 1 /\ s > size_input + 1
       /\ s < size_input + 3
    THEN Zero(st) ELSE st

\* the rule applied to the first hidden neuron instead of the output neuron
MultiLayerInputBlockingShifted(st, c, s, tn) ==
    IF config_flags[7] = 1 /\ s >= 2 /\ s < size_input + 2
       /\ c >= size_input + 3 /\ c < size_input + 4
    THEN Zero(st) ELSE st

MultiLayerInputBlocking(st, c, s, tn) ==
    IF config_flags[7] = 1 /\ s >= 2 /\ s < size_input + 2
       /\ c >= size_input + 2 /\ c < size_input + 3
    THEN Zero(st) ELSE st

SecondLayerInternal(st, c, s, tn) ==
    IF c > tn + 1 - size_hidden2 /\ s >= size_input + 3
    THEN Draw(init_range_weight, st) ELSE st

\* the rule with its flag ignored: every self-loop drawn
SelfLoopKept(st, c, s, tn) ==
    IF c = s THEN Draw(init_range_weight, st) ELSE st

SelfLoopControl(st, c, s, tn) ==
    IF c = s
    THEN IF config_flags[3] = 1 THEN Zero(st) ELSE Draw(init_range_weight, st)
    ELSE st

InhibitoryInputControl(st, c, s, tn) ==
    IF config_flags[11] = 0 /\ s < size_input + 2 /\ (s % 2) = 1
    THEN Zero(st) ELSE st

TypeConstraintSourceOnly(st, c, s, tn) ==
    [st EXCEPT !.w = st.w * Polarity(s)]

TypeConstraint(st, c, s, tn) ==
    [st EXCEPT !.w = st.w * (Polarity(s) * Polarity(c))]

\* the loop body with the self-loop rule moved before the second-layer rule
InitConnectionSelfLoopFirst(st, c, s, tn) ==
    LET r1 == BiasConnection(st, c, s, tn)
        r2 == RegularConnection(r1, c, s, tn)
        r3 == SecondLayerInputBlocking(r2, c, s, tn)
        r4 == LoopCutting(r3, c, s, tn)
        r5 == LoopCuttingOutput(r4, c, s, tn)
        r6 == MultiLayerInputBlocking(r5, c, s, tn)
        r7 == SelfLoopControl(r6, c, s, tn)
        r8 == SecondLayerInternal(r7, c, s, tn)
        r9 == InhibitoryInputControl(r8, c, s, tn)
    IN  TypeConstraint(r9, c, s, tn)

\* the body of the inner loop for one (c_neuron, s_neuron)
InitConnection(st, c, s, tn) ==
    LET r1 == BiasConnection(st, c, s, tn)
        r2 == RegularConnection(r1, c, s, tn)
        r3 == SecondLayerInputBlocking(r2, c, s, tn)
        r4 == LoopCutting(r3, c, s, tn)
        r5 == LoopCuttingOutput(r4, c, s, tn)
        r6 == MultiLayerInputBlocking(r5, c, s, tn)
        r7 == SecondLayerInternal(r6, c, s, tn)
        r8 == SelfLoopControl(r7, c, s, tn)
        r9 == InhibitoryInputControl(r8, c, s, tn)
    IN  TypeConstraint(r9, c, s, tn)

\* An initialisation state is a record [w, rng]: all weight matrices and rand().
RECURSIVE InitSources(_, _, _, _, _)
InitSources(net, c, s, st, tn) ==
    IF s > tn + 1 THEN st
    ELSE LET r == InitConnection([w |-> st.w[net][c][s], rng |-> st.rng], c, s, tn)
             n == [w |-> [st.w EXCEPT ![net][c][s] = r.w], rng |-> r.rng]
         IN  IF Computed(n) THEN InitSources(net, c, s + 1, n, tn) ELSE n

RECURSIVE InitTargets(_, _, _, _)
InitTargets(net, c, st, tn) ==
    IF c > tn + 1 THEN st
    ELSE LET n == InitSources(net, c, 0, st, tn)
         IN  IF Computed(n) THEN InitTargets(net, c + 1, n, tn) ELSE n

RECURSIVE InitNetworks(_, _, _)
InitNetworks(net, st, tn) ==
    IF net >= size_output THEN st
    ELSE LET n == InitTargets(net, size_input + 2, st, tn)
         IN  IF Computed(n) THEN InitNetworks(net + 1, n, tn) ELSE n

(***************************************************************************)
(* The state main has reached when it has read the seed, the sizes and the *)
(* parameters: every array is still zero.                                  *)
(***************************************************************************)
DefaultParameters ==
    [learning_rate |-> 8, bias |-> 8, sigmoid_steepness |-> 4,
     error_amplification |-> 10, init_range_weight |-> 10,
     init_range_threshold |-> 10, timesteps |-> 2, pattern_gen_mode |-> 0,
     error_residual |-> 0,
     pattern_type |-> [o \in NetIdx |-> 1]]

OtherParameters ==
    [learning_rate |-> 5, bias |-> 10, sigmoid_steepness |-> 10,
     error_amplification |-> 20, init_range_weight |-> 20,
     init_range_threshold |-> 5, timesteps |-> 1, pattern_gen_mode |-> 1,
     error_residual |-> 30,
     pattern_type |-> [o \in NetIdx |->
                          IF o % 3 = 0 THEN 4 ELSE IF o % 3 = 1 THEN 0 ELSE 2]]

ParameterChoices == {DefaultParameters, OtherParameters}

ZeroVector == [i \in NeuronIdx |-> 0]

\* the state when main calls learning_pattern_generation, for the answers
\* in hidden1 to the prompt "Hidden neurons?" and in seeds to "Random seed?"
InitFrom(hidden1, seeds) ==
    /\ size_input \in {2 * k : k \in InputChoices}
    /\ size_output \in OutputChoices
    /\ size_hidden \in hidden1
    /\ size_hidden2 \in 0 .. MaxHidden2
    /\ total_neurons = 0
    /\ pattern_count \in PatternChoices
    /\ config_flags \in [FlagIdx -> {0, 1}]
    /\ \E p \in ParameterChoices :
          /\ learning_rate = p.learning_rate
          /\ bias = p.bias
          /\ sigmoid_steepness = p.sigmoid_steepness
          /\ error_amplification = p.error_amplification
          /\ init_range_weight = p.init_range_weight
          /\ init_range_threshold = p.init_range_threshold
          /\ timesteps = p.timesteps
          /\ pattern_gen_mode = p.pattern_gen_mode
          /\ pattern_type = p.pattern_type
          /\ error_residual = p.error_residual
    /\ rand_state \in seeds
    /\ neuron_input = [n \in NetIdx |-> ZeroVector]
    /\ neuron_output = [n \in NetIdx |-> ZeroVector]
    /\ error_delta = [n \in NetIdx |-> [i \in NeuronIdx |-> [k \in 0 .. 1 |-> 0]]]
    /\ weights = [n \in NetIdx |-> [c \in NeuronIdx |-> ZeroVector]]
    /\ weights_oscillating = ZeroVector
    /\ error_total = 0
    /\ error_count = 0
    /\ epoch_counter = 0
    /\ loop_pattern = 0
    /\ input_pattern_global = [c \in PatternIdx |-> [s \in FeatureIdx |-> 0]]
    /\ target_pattern_global = [c \in PatternIdx |-> [o \in NetIdx |-> 0]]
    /\ pc = "generate"
    /\ phases_done = << >>
    /\ pending = {}
    /\ weights_sequential = weights
    /\ reordered = FALSE

Init == InitFrom(0 .. MaxHidden1, SeedChoices)

(***************************************************************************)
(* main, lines 148-169: pattern generation, then init_network.             *)
(***************************************************************************)
LearningPatternGeneration ==
    /\ pc = "generate"
    /\ LET g == GenPatterns(0, [rng |-> rand_state,
                                inp |-> input_pattern_global,
                                tgt |-> target_pattern_global])
       IN  /\ input_pattern_global' = g.inp
           /\ target_pattern_global' = g.tgt
           /\ rand_state' = g.rng
    /\ pc' = "init"
    /\ UNCHANGED << topology, parameters, activations, counters, ordering,
                    error_delta, weights, weights_oscillating,
                    epoch_counter, loop_pattern, phases_done >>

\* init_network(size_input, size_output, size_hidden, size_hidden2)
InitNetwork ==
    /\ pc = "init"
    /\ LET tn == size_input + 1 + (size_hidden + size_hidden2)
           r  == InitNetworks(0, [w |-> weights, rng |-> rand_state], tn)
       IN  /\ size_hidden' = size_hidden + size_hidden2
           /\ total_neurons' = tn
           /\ weights_oscillating' =
                  [i \in NeuronIdx |->
                      IF i <= tn + 1 THEN Polarity(i) ELSE weights_oscillating[i]]
           /\ weights' = r.w
           /\ rand_state' = r.rng
    /\ neuron_input' =
           [n \in NetIdx |->
               IF n < size_output
               THEN [neuron_input[n] EXCEPT ![0] = bias, ![1] = bias]
               ELSE neuron_input[n]]
    /\ error_count' = 0
    /\ error_total' = 0
    /\ epoch_counter' = 0
    /\ pc' = "epoch"
    /\ UNCHANGED << size_input, size_output, size_hidden2, parameters, patterns,
                    ordering, neuron_output, error_delta, loop_pattern,
                    phases_done >>

(***************************************************************************)
(* calculate_output: the forward pass of one sub-network.  An activation   *)
(* state is a record [ni, no]: that sub-network's neuron_input and         *)
(* neuron_output rows.                                                     *)
(***************************************************************************)
\* 1 / (1 + exp(-2 * x / sigmoid_steepness))
sigmoid(x) == Logistic(Quot(2 * x, sigmoid_steepness))

Targets == (size_input + 2) .. (total_neurons + 1)
Sources == 0 .. (total_neurons + 1)

RECURSIVE WeightedSum(_, _, _)
\* the sum over connection .. total_neurons + 1 of weights * neuron_input
WeightedSum(row, ni, connection) ==
    IF connection > total_neurons + 1 THEN 0
    ELSE Mul(row[connection], ni[connection])
         + WeightedSum(row, ni, connection + 1)

\* the feature written to the even slot of each pair only
DistributeInputEvenSlots(ni, input_pattern_current) ==
    [c \in NeuronIdx |->
        IF c >= 2 /\ c <= size_input + 1 /\ c % 2 = 0
        THEN input_pattern_current[(c \div 2) - 1]
        ELSE ni[c]]

\* input_pattern_current[c_neuron / 2 - 1] into neurons 2 .. size_input + 1
DistributeInput(ni, input_pattern_current) ==
    [c \in NeuronIdx |->
        IF c >= 2 /\ c <= size_input + 1
        THEN input_pattern_current[(c \div 2) - 1]
        ELSE ni[c]]

HiddenInitializationSkipped(ni) == ni

\* the zeroing run over the bias slots as well
HiddenInitializationWithBias(ni) ==
    IF config_flags[6] # 0
    THEN [c \in NeuronIdx |-> IF c \in Targets \/ c < 2 THEN 0 ELSE ni[c]]
    ELSE ni

\* the zeroing stopped after the output neuron's slot
HiddenInitializationOutputOnly(ni) ==
    IF config_flags[6] # 0
    THEN [c \in NeuronIdx |-> IF c = size_input + 2 THEN 0 ELSE ni[c]]
    ELSE ni

\* hidden neurons set to zero when loop cutting is on
HiddenInitialization(ni) ==
    IF config_flags[6] # 0
    THEN [c \in NeuronIdx |-> IF c \in Targets THEN 0 ELSE ni[c]]
    ELSE ni

\* a timestep whose activation loop starts at the first input neuron
TimestepFromInputs(w, a) ==
    LET no == [c \in NeuronIdx |->
                  IF c >= 2 /\ c <= total_neurons + 1
                  THEN sigmoid(WeightedSum(w[c], a.ni, 0))
                  ELSE a.no[c]]
    IN  [ni |-> [c \in NeuronIdx |-> IF c \in Targets THEN no[c] ELSE a.ni[c]],
         no |-> no]

\* one timestep: the activations of all targets, then the feedback copy
Timestep(w, a) ==
    LET no == [c \in NeuronIdx |->
                  IF c \in Targets THEN sigmoid(WeightedSum(w[c], a.ni, 0))
                  ELSE a.no[c]]
    IN  [ni |-> [c \in NeuronIdx |-> IF c \in Targets THEN no[c] ELSE a.ni[c]],
         no |-> no]

RECURSIVE Recurrent(_, _, _)
Recurrent(timestep, w, a) ==
    IF timestep > timesteps THEN a
    ELSE Recurrent(timestep + 1, w, Timestep(w, a))

ForwardPass(w, a, input_pattern_current) ==
    Recurrent(1, w,
        [ni |-> HiddenInitialization(DistributeInput(a.ni, input_pattern_current)),
         no |-> a.no])

(***************************************************************************)
(* calculate_learning: the error of one sub-network and its two channels.  *)
(***************************************************************************)
ErrorPrediction(no, target) == target - no[size_input + 2]

ChannelSplitSigned(error_prediction) ==
    IF error_prediction > 0
    THEN [k \in 0 .. 1 |-> IF k = 0 THEN error_prediction ELSE 0]
    ELSE [k \in 0 .. 1 |-> IF k = 0 THEN 0 ELSE error_prediction]

\* [0] excitatory, [1] inhibitory
ChannelSplit(error_prediction) ==
    IF error_prediction > 0
    THEN [k \in 0 .. 1 |-> IF k = 0 THEN error_prediction ELSE 0]
    ELSE [k \in 0 .. 1 |-> IF k = 0 THEN 0 ELSE -error_prediction]

BroadcastUnamplified(pair) == pair

\* the pair stored at a hidden neuron's slot
Broadcast(pair) ==
    [k \in 0 .. 1 |-> Mul(pair[k], error_amplification)]

\* the error table of one sub-network after the call
Diffuse(ed, no, target) ==
    LET pair == ChannelSplit(ErrorPrediction(no, target))
    IN  [c \in NeuronIdx |->
            IF c = size_input + 2 THEN pair
            ELSE IF c >= size_input + 3 /\ c <= total_neurons + 1
                 THEN Broadcast(pair)
                 ELSE ed[c]]

RECURSIVE AccumulateTotal(_, _, _)
\* error_total after sub-networks s_neuron .. size_output - 1
AccumulateTotal(s_neuron, total, target_pattern_current) ==
    IF s_neuron > size_output - 1 THEN total
    ELSE AccumulateTotal(s_neuron + 1,
             total + fabs(ErrorPrediction(neuron_output[s_neuron],
                                          target_pattern_current[s_neuron])),
             target_pattern_current)

RECURSIVE AccumulateCount(_, _, _)
AccumulateCount(s_neuron, count, target_pattern_current) ==
    IF s_neuron > size_output - 1 THEN count
    ELSE AccumulateCount(s_neuron + 1,
             count + (IF fabs(ErrorPrediction(neuron_output[s_neuron],
                                 target_pattern_current[s_neuron])) > Half
                      THEN 1 ELSE 0),
             target_pattern_current)

(***************************************************************************)
(* calculate_weight: the update of one connection, and the nested loops.   *)
(***************************************************************************)
\* the step computed from the first sub-network's activations
DeltaFirstNetwork(net, c, connection) ==
    Mul(Mul(Mul(learning_rate, neuron_input[0][connection]),
            fabs(neuron_output[0][c])),
        Unit - fabs(neuron_output[0][c]))

\* learning_rate * input * |output| * (1 - |output|)
Delta(net, c, connection) ==
    Mul(Mul(Mul(learning_rate, neuron_input[net][connection]),
            fabs(neuron_output[net][c])),
        Unit - fabs(neuron_output[net][c]))

Bidirectional(net, c, connection) ==
    Mul(Delta(net, c, connection) * weights_oscillating[c],
        error_delta[net][c][0] - error_delta[net][c][1])

\* the selective step with the channel chosen by the target's polarity
SelectiveByTarget(net, c, connection) ==
    IF weights_oscillating[c] > 0
    THEN Mul(Delta(net, c, connection), error_delta[net][c][0])
         * weights_oscillating[connection] * weights_oscillating[c]
    ELSE Mul(Delta(net, c, connection), error_delta[net][c][1])
         * weights_oscillating[connection] * weights_oscillating[c]

\* the selective step without the two polarity factors
SelectiveUntyped(net, c, connection) ==
    IF weights_oscillating[connection] > 0
    THEN Mul(Delta(net, c, connection), error_delta[net][c][0])
    ELSE Mul(Delta(net, c, connection), error_delta[net][c][1])

Selective(net, c, connection) ==
    IF weights_oscillating[connection] > 0
    THEN Mul(Delta(net, c, connection), error_delta[net][c][0])
         * weights_oscillating[connection] * weights_oscillating[c]
    ELSE Mul(Delta(net, c, connection), error_delta[net][c][1])
         * weights_oscillating[connection] * weights_oscillating[c]

\* an update whose step is scaled by the row's bias weight as it stands
UpdateConnectionRowScaled(w, net, c, connection) ==
    IF w[net][c][connection] # 0
    THEN [w EXCEPT ![net][c][connection] =
             @ + Mul(fabs(w[net][c][0]),
                     IF config_flags[10] = 1
                     THEN Bidirectional(net, c, connection)
                     ELSE Selective(net, c, connection))]
    ELSE w

UpdateConnectionUnguarded(w, net, c, connection) ==
    [w EXCEPT ![net][c][connection] =
        @ + (IF config_flags[10] = 1
             THEN Bidirectional(net, c, connection)
             ELSE Selective(net, c, connection))]

\* the body of the inner loop on the matrices w
UpdateConnection(w, net, c, connection) ==
    IF w[net][c][connection] # 0
    THEN [w EXCEPT ![net][c][connection] =
            @ + (IF config_flags[10] = 1
                 THEN Bidirectional(net, c, connection)
                 ELSE Selective(net, c, connection))]
    ELSE w

RECURSIVE UpdateSources(_, _, _, _)
UpdateSources(w, net, c, connection) ==
    IF connection > total_neurons + 1 THEN w
    ELSE LET n == UpdateConnection(w, net, c, connection)
         IN  IF Computed(n) THEN UpdateSources(n, net, c, connection + 1) ELSE n

RECURSIVE UpdateTargets(_, _, _)
UpdateTargets(w, net, c) ==
    IF c > total_neurons + 1 THEN w
    ELSE LET n == UpdateSources(w, net, c, 0)
         IN  IF Computed(n) THEN UpdateTargets(n, net, c + 1) ELSE n

RECURSIVE UpdateNetworks(_, _)
UpdateNetworks(w, net) ==
    IF net >= size_output THEN w
    ELSE LET n == UpdateTargets(w, net, size_input + 2)
         IN  IF Computed(n) THEN UpdateNetworks(n, net + 1) ELSE n

(***************************************************************************)
(* calculate_network: the three operations in the order of its body.       *)
(***************************************************************************)
CalculateNetworkUpdateFirst == << "output", "weight", "learning" >>

CalculateNetworkOrder == << "output", "learning", "weight" >>

FirstPhase == CalculateNetworkOrder[1]

\* where calculate_network goes on after the operation p
PhaseAfter(p) ==
    LET i == CHOOSE k \in 1 .. Len(CalculateNetworkOrder) :
                 CalculateNetworkOrder[k] = p
    IN  IF i < Len(CalculateNetworkOrder) THEN CalculateNetworkOrder[i + 1]
        ELSE "write"

CalculateOutput ==
    /\ pc = "output"
    /\ LET a == [n \in NetIdx |->
                    IF n < size_output
                    THEN ForwardPass(weights[n],
                             [ni |-> neuron_input[n], no |-> neuron_output[n]],
                             input_pattern_global[loop_pattern])
                    ELSE [ni |-> neuron_input[n], no |-> neuron_output[n]]]
       IN  /\ neuron_input' = [n \in NetIdx |-> a[n].ni]
           /\ neuron_output' = [n \in NetIdx |-> a[n].no]
    /\ phases_done' = Append(phases_done, "output")
    /\ pc' = PhaseAfter("output")
    /\ UNCHANGED << topology, parameters, patterns, counters, ordering,
                    error_delta, weights, weights_oscillating,
                    epoch_counter, loop_pattern, rand_state >>

CalculateLearning ==
    /\ pc = "learning"
    /\ error_delta' =
           [n \in NetIdx |->
               IF n < size_output
               THEN Diffuse(error_delta[n], neuron_output[n],
                            target_pattern_global[loop_pattern][n])
               ELSE error_delta[n]]
    /\ error_total' =
           AccumulateTotal(0, error_total, target_pattern_global[loop_pattern])
    /\ error_count' =
           AccumulateCount(0, error_count, target_pattern_global[loop_pattern])
    /\ phases_done' = Append(phases_done, "learning")
    /\ pc' = PhaseAfter("learning")
    /\ UNCHANGED << topology, parameters, patterns, activations, ordering,
                    weights, weights_oscillating,
                    epoch_counter, loop_pattern, rand_state >>

CalculateWeight ==
    /\ pc = "weight"
    /\ weights' = UpdateNetworks(weights, 0)
    /\ phases_done' = Append(phases_done, "weight")
    /\ pc' = PhaseAfter("weight")
    /\ UNCHANGED << topology, parameters, patterns, activations, counters,
                    ordering, error_delta, weights_oscillating,
                    epoch_counter, loop_pattern, rand_state >>

(***************************************************************************)
(* main's training loop and the display functions of ed_write.c.           *)
(***************************************************************************)
EpochLimit == 10000
\* 0.1
ConvergedBelow == Unit \div 10

\* for (;;) { epoch_counter++; for (loop_pattern = 0; ...
EpochBegin ==
    /\ pc = "epoch"
    /\ epoch_counter < MaxEpochs
    /\ epoch_counter' = epoch_counter + 1
    /\ loop_pattern' = 0
    /\ phases_done' = << >>
    /\ pc' = IF 0 <= pattern_count - 1 THEN FirstPhase ELSE "check"
    /\ UNCHANGED << topology, parameters, patterns, activations, counters,
                    ordering, error_delta, weights, weights_oscillating,
                    rand_state >>

\* write_output_neuron prints; then loop_pattern++ and the loop test
WriteOutputNeuron ==
    /\ pc = "write"
    /\ loop_pattern' = loop_pattern + 1
    /\ phases_done' = << >>
    /\ pc' = IF loop_pattern + 1 <= pattern_count - 1 THEN FirstPhase ELSE "check"
    /\ UNCHANGED << topology, parameters, patterns, activations, counters,
                    ordering, error_delta, weights, weights_oscillating,
                    epoch_counter, rand_state >>

\* write_weight_neuron returning 0 without the reset of its last lines
WriteWeightNeuronKeepsCounters ==
    /\ pc = "check"
    /\ pc' = IF epoch_counter > EpochLimit \/ error_total < ConvergedBelow
             THEN "done" ELSE "epoch"
    /\ UNCHANGED << topology, parameters, patterns, activations, ordering,
                    counters, error_delta, weights, weights_oscillating,
                    epoch_counter, loop_pattern, rand_state, phases_done >>

\* write_weight_neuron without the test of error_total
WriteWeightNeuronLimitOnly ==
    /\ pc = "check"
    /\ IF epoch_counter > EpochLimit
       THEN /\ pc' = "done"
            /\ UNCHANGED counters
       ELSE /\ pc' = "epoch"
            /\ error_total' = 0
            /\ error_count' = 0
    /\ UNCHANGED << topology, parameters, patterns, activations, ordering,
                    error_delta, weights, weights_oscillating,
                    epoch_counter, loop_pattern, rand_state, phases_done >>

\* write_weight_neuron(epoch_counter, write_mode, pattern_count)
WriteWeightNeuron ==
    /\ pc = "check"
    /\ IF epoch_counter > EpochLimit \/ error_total < ConvergedBelow
       THEN /\ pc' = "done"
            /\ UNCHANGED counters
       ELSE /\ pc' = "epoch"
            /\ error_total' = 0
            /\ error_count' = 0
    /\ UNCHANGED << topology, parameters, patterns, activations, ordering,
                    error_delta, weights, weights_oscillating,
                    epoch_counter, loop_pattern, rand_state, phases_done >>

Next ==
    \/ LearningPatternGeneration
    \/ InitNetwork
    \/ EpochBegin
    \/ CalculateOutput
    \/ CalculateLearning
    \/ CalculateWeight
    \/ WriteOutputNeuron
    \/ WriteWeightNeuron

Spec == Init /\ [][Next]_vars

(***************************************************************************)
(* calculate_weight with the visiting order of its connections left open.  *)
(* WeightBegin records what the nested loops of lines 44-50 compute; each   *)
(* WeightVisit runs the loop body of lines 52-105 on one connection: any    *)
(* one in a network without hidden neurons, and otherwise one of the first *)
(* OrderWindow not yet visited, so that a connection may be overtaken by    *)
(* any number of later ones.                                               *)
(***************************************************************************)
\* the flags' defaults of ed_user_network_params.c
DefaultFlags ==
    [f \in FlagIdx |-> IF f = 10 THEN 0 ELSE 1]

Connections ==
    {<< n, c, s >> : n \in 0 .. (size_output - 1), c \in Targets, s \in Sources}

\* u comes before v in the nested loops
Before(u, v) ==
    \/ u[1] < v[1]
    \/ u[1] = v[1] /\ u[2] < v[2]
    \/ u[1] = v[1] /\ u[2] = v[2] /\ u[3] < v[3]

Skipped(v) == {u \in pending : Before(u, v)}

InitOrder ==
    /\ Init
    /\ \A o \in OutputChoices : size_output <= o
    /\ \A k \in InputChoices : size_input <= 2 * k
    /\ \A seed \in SeedChoices : rand_state <= seed
    /\ size_hidden2 = 0
    /\ \A f \in FlagIdx \ {10} : config_flags[f] = DefaultFlags[f]

WeightBegin ==
    /\ pc = "weight"
    /\ pending' = Connections
    /\ weights_sequential' = UpdateNetworks(weights, 0)
    /\ reordered' = FALSE
    /\ pc' = "visiting"
    /\ UNCHANGED << topology, parameters, patterns, activations, counters,
                    error_delta, weights, weights_oscillating, phases_done,
                    epoch_counter, loop_pattern, rand_state >>

WeightVisit ==
    /\ pc = "visiting"
    /\ \E v \in pending :
          /\ Cardinality(Skipped(v)) < OrderWindow \/ size_hidden = 0
          /\ weights' = UpdateConnection(weights, v[1], v[2], v[3])
          /\ pending' = pending \ {v}
          /\ reordered' = (reordered \/ Skipped(v) # {})
    /\ UNCHANGED << topology, parameters, patterns, activations, counters,
                    error_delta, weights_oscillating, weights_sequential,
                    phases_done, pc, epoch_counter, loop_pattern, rand_state >>

WeightEnd ==
    /\ pc = "visiting"
    /\ pending = {}
    /\ phases_done' = Append(phases_done, "weight")
    /\ pc' = PhaseAfter("weight")
    /\ reordered' = FALSE
    /\ UNCHANGED << topology, parameters, patterns, activations, counters,
                    pending, weights_sequential, error_delta, weights,
                    weights_oscillating, epoch_counter, loop_pattern,
                    rand_state >>

NextOrder ==
    \/ LearningPatternGeneration
    \/ InitNetwork
    \/ EpochBegin
    \/ CalculateOutput
    \/ CalculateLearning
    \/ WeightBegin
    \/ WeightVisit
    \/ WeightEnd
    \/ WriteOutputNeuron
    \/ WriteWeightNeuron

SpecOrder == InitOrder /\ [][NextOrder]_vars

(***************************************************************************)
(* The training loop run to its end: for (;;) has no test of its own, so   *)
(* the only guard on epoch_counter is one write_weight_neuron's return     *)
(* value never lets it reach.                                              *)
(***************************************************************************)
InitLong ==
    /\ Init
    /\ \A o \in OutputChoices : size_output <= o
    /\ \A k \in InputChoices : size_input <= 2 * k
    /\ size_hidden = 0
    /\ size_hidden2 = 0
    /\ \A f \in FlagIdx \ {11} : config_flags[f] = DefaultFlags[f]

\* epoch_counter++ and the first test of the pattern loop
EpochBeginLong ==
    /\ pc = "epoch"
    /\ epoch_counter <= EpochLimit + 1
    /\ epoch_counter' = epoch_counter + 1
    /\ loop_pattern' = 0
    /\ phases_done' = << >>
    /\ pc' = IF 0 <= pattern_count - 1 THEN FirstPhase ELSE "check"
    /\ UNCHANGED << topology, parameters, patterns, activations, counters,
                    ordering, error_delta, weights, weights_oscillating,
                    rand_state >>

NextLong ==
    \/ LearningPatternGeneration
    \/ InitNetwork
    \/ EpochBeginLong
    \/ CalculateOutput
    \/ CalculateLearning
    \/ CalculateWeight
    \/ WriteOutputNeuron
    \/ WriteWeightNeuron

SpecLong == InitLong /\ [][NextLong]_vars

(***************************************************************************)
(* main with a negative answer to "Hidden neurons?": user_input_int takes  *)
(* whatever atoi returns and main hands it to init_network.                *)
(***************************************************************************)
InitConfig == InitFrom({-1}, SeedChoices)

SpecConfig == InitConfig /\ [][Next]_vars

(***************************************************************************)
(* main with seeds for which rand() returns a multiple of 10000 within the *)
(* draws of init_network.                                                  *)
(***************************************************************************)
ZeroDrawSeeds == {139, 248}

InitZeroDraw == InitFrom(0 .. MaxHidden1, ZeroDrawSeeds)

SpecZeroDraw == InitZeroDraw /\ [][Next]_vars

(***************************************************************************)
(* Properties.                                                             *)
(***************************************************************************)
\* init_network has returned
Built == pc \notin {"generate", "init"}

\* init_network has just returned
JustBuilt == pc = "epoch" /\ epoch_counter = 0

\* calculate_weight has just returned: the activations and the error table
\* are still the ones it read
JustUpdated == pc = "write"

\* calculate_learning has just returned
JustDiffused ==
    Len(phases_done) > 0 /\ phases_done[Len(phases_done)] = "learning"

Nets == 0 .. (size_output - 1)
Hidden == (size_input + 3) .. (total_neurons + 1)
OutputNeuron == size_input + 2

\* what calculate_weight adds to a nonzero weights[net][c][connection]
Change(net, c, connection) ==
    IF config_flags[10] = 1 THEN Bidirectional(net, c, connection)
    ELSE Selective(net, c, connection)

\* C1: a weight that is exactly 0 after init_network is still 0 after every
\* later step, in the bidirectional and in the selective update mode.
C1_ZeroStaysZero ==
    [][Built =>
          \A n \in NetIdx, c \in NeuronIdx, s \in NeuronIdx :
              weights[n][c][s] = 0 => weights'[n][c][s] = 0]_vars

\* a zero weight that calculate_weight has visited with a nonzero change at
\* hand, next to a weight of the same row that it did change
C1_Witness ==
    /\ JustUpdated
    /\ \E n \in Nets, c \in Targets, s \in Sources :
          /\ weights[n][c][s] = 0
          /\ Change(n, c, s) # 0
          /\ \E s2 \in Sources : weights[n][c][s2] # 0 /\ Change(n, c, s2) # 0

\* C2: right after init_network every weight of a target neuron is 0 or has
\* the sign of the product of its source's and its target's polarity.
C2_InitialSign ==
    JustBuilt =>
        \A n \in Nets, c \in Targets, s \in Sources :
            \/ weights[n][c][s] = 0
            \/ signage(weights[n][c][s])
                   = weights_oscillating[s] * weights_oscillating[c]

\* a network with a second hidden layer that holds weights of both signs
C2_Witness ==
    /\ JustBuilt
    /\ size_hidden2 > 0
    /\ \E n \in Nets, c \in Targets, s \in Sources : weights[n][c][s] < 0
    /\ \E n \in Nets, c \in Targets, s \in Sources : weights[n][c][s] > 0

\* C3: in every state after init_network every nonzero weight has the sign
\* of the product of its source's and its target's polarity, in either
\* update mode.
C3_SignInvariant ==
    Built =>
        \A n \in Nets, c \in Targets, s \in Sources :
            \/ weights[n][c][s] = 0
            \/ signage(weights[n][c][s])
                   = weights_oscillating[s] * weights_oscillating[c]

\* C4: with loop cutting on, no two distinct hidden neurons are connected in
\* either direction, whatever the sizes of the two hidden layers.
C4_NoHiddenToHidden ==
    (Built /\ config_flags[6] = 1) =>
        \A n \in Nets, a \in Hidden, b \in Hidden :
            a # b => weights[n][a][b] = 0 /\ weights[n][b][a] = 0

\* C4 as amended: with loop cutting on, a hidden neuron outside the second
\* hidden layer has no connection from any other hidden neuron.
C4_FirstLayerCut ==
    (Built /\ config_flags[6] = 1) =>
        \A n \in Nets, a \in Hidden, b \in Hidden :
            (a # b /\ a <= total_neurons + 1 - size_hidden2)
                => weights[n][a][b] = 0

\* a trained network with loop cutting, two first-layer hidden neurons and a
\* second hidden layer
C4_Witness ==
    /\ JustUpdated
    /\ config_flags[6] = 1
    /\ size_hidden2 > 0
    /\ size_hidden - size_hidden2 >= 2
    /\ \E n \in Nets, c \in Targets, s \in Sources :
          weights[n][c][s] # 0 /\ Change(n, c, s) # 0

\* C5: with self-loop cutting on, weights[i][i] is 0 for every target neuron
\* i after init_network and in every later state.
C5_NoSelfLoop ==
    (Built /\ config_flags[3] = 1) =>
        \A n \in Nets, i \in Targets : weights[n][i][i] = 0

\* a trained network with self-loop cutting and a second hidden layer, whose
\* rule re-draws the weights from the hidden range
C5_Witness ==
    /\ JustUpdated
    /\ config_flags[3] = 1
    /\ size_hidden2 > 0
    /\ \E n \in Nets, c \in Hidden, s \in Hidden :
          c # s /\ c > total_neurons + 1 - size_hidden2 /\ weights[n][c][s] # 0

\* C6: after init_network the polarity of an even index is +1 and of an odd
\* index -1, the output neuron's is +1, and no later operation changes it.
C6_Polarity ==
    Built =>
        \A i \in Sources :
            weights_oscillating[i] =
                IF i = OutputNeuron \/ i % 2 = 0 THEN 1 ELSE -1

\* the end of a second epoch: every operation has run more than once
C6_Witness ==
    /\ pc = "check"
    /\ epoch_counter > 1
    /\ size_hidden > 0

\* C7: whatever the order in which calculate_weight's loop body visits the
\* connections of a sub-network, the weights it ends with are the ones the
\* nested loops produce.
C7_OrderIndependent ==
    (pc = "visiting" /\ pending = {}) => weights = weights_sequential

\* every connection visited, out of the nested loops' order, with two
\* connections of one row changed
C7_Witness ==
    /\ pc = "visiting"
    /\ pending = {}
    /\ reordered
    /\ \E v \in Connections, u \in Connections :
          /\ u # v
          /\ u[2] = v[2]
          /\ weights[v[1]][v[2]][v[3]] # 0 /\ Change(v[1], v[2], v[3]) # 0
          /\ weights[u[1]][u[2]][u[3]] # 0 /\ Change(u[1], u[2], u[3]) # 0

\* C8: within one calculate_network call the forward pass comes before the
\* error diffusion and the diffusion before the weight update, and the error
\* table the update reads is the one computed from this call's prediction.
C8_Order ==
    /\ pc = "learning" => phases_done = << "output" >>
    /\ pc = "weight" =>
          /\ phases_done = << "output", "learning" >>
          /\ \A n \in Nets, c \in Targets :
                error_delta[n][c] =
                    LET pair == ChannelSplit(
                                    target_pattern_global[loop_pattern][n]
                                        - neuron_output[n][OutputNeuron])
                    IN  IF c = OutputNeuron THEN pair ELSE Broadcast(pair)
    /\ pc = "write" => phases_done = << "output", "learning", "weight" >>

\* the update of a second pattern is about to read an error table that
\* differs from the one the first pattern left
C8_Witness ==
    /\ pc = "weight"
    /\ loop_pattern > 0
    /\ \E n \in Nets :
          error_delta[n][OutputNeuron][0] # error_delta[n][OutputNeuron][1]

\* C9: after calculate_learning the pair (e, i) at the output neuron's slot
\* has e >= 0, i >= 0, e * i = 0 and e - i = target - prediction.
C9_ChannelSplit ==
    JustDiffused =>
        \A n \in Nets :
            LET e == error_delta[n][OutputNeuron][0]
                i == error_delta[n][OutputNeuron][1]
            IN  /\ e >= 0
                /\ i >= 0
                /\ e * i = 0
                /\ e - i = target_pattern_global[loop_pattern][n]
                               - neuron_output[n][OutputNeuron]

\* one sub-network with a positive error and one with a negative error
C9_Witness ==
    /\ JustDiffused
    /\ \E n \in Nets : error_delta[n][OutputNeuron][0] > 0
    /\ \E n \in Nets : error_delta[n][OutputNeuron][1] > 0

\* C10: after calculate_learning every hidden neuron's pair is the output
\* neuron's pair with each channel multiplied by error_amplification, and the
\* output neuron's own pair is the unamplified split of this call's error.
C10_Broadcast ==
    JustDiffused =>
        \A n \in Nets :
            /\ error_delta[n][OutputNeuron] =
                   ChannelSplit(target_pattern_global[loop_pattern][n]
                                    - neuron_output[n][OutputNeuron])
            /\ \A h \in Hidden, k \in 0 .. 1 :
                   error_delta[n][h][k] =
                       Mul(error_delta[n][OutputNeuron][k], error_amplification)

\* a later pattern's diffusion with an amplification other than 1 and a
\* nonzero error
C10_Witness ==
    /\ JustDiffused
    /\ loop_pattern > 0
    /\ error_amplification # Unit
    /\ Hidden # {}
    /\ \E n \in Nets, h \in Hidden :
          /\ error_delta[n][h] # error_delta[n][OutputNeuron]
          /\ error_delta[n][OutputNeuron][1] > 0

\* what lines 59-105 of calculate_weight add to a nonzero weight, written on
\* the activations ni, no and the error table ed of one sub-network
OwnChange(ni, no, ed, c, s) ==
    LET delta == Mul(Mul(Mul(learning_rate, ni[s]), fabs(no[c])),
                     Unit - fabs(no[c]))
    IN  IF config_flags[10] = 1
        THEN Mul(delta * weights_oscillating[c], ed[c][0] - ed[c][1])
        ELSE Mul(delta, ed[c][IF weights_oscillating[s] > 0 THEN 0 ELSE 1])
                 * weights_oscillating[s] * weights_oscillating[c]

\* the matrix of one sub-network after calculate_weight, from that
\* sub-network's own matrix w, activations and error table
OwnUpdate(w, ni, no, ed) ==
    [c \in NeuronIdx |-> [s \in NeuronIdx |->
        IF c \in Targets /\ s \in Sources /\ w[c][s] # 0
        THEN w[c][s] + OwnChange(ni, no, ed, c, s)
        ELSE w[c][s]]]

\* C11: at every step after init_network the weights, activations and error
\* table of a sub-network k after the step are a function of k's own
\* weights, activations, error table and target and of the input pattern
\* alone, so nothing of another sub-network can reach them.
C11_NonInterference ==
    [][Built => \A k \in Nets :
          LET own == [ni |-> neuron_input[k], no |-> neuron_output[k]]
              fwd == ForwardPass(weights[k], own,
                                 input_pattern_global[loop_pattern])
          IN  /\ neuron_input'[k] =
                     IF pc = "output" THEN fwd.ni ELSE neuron_input[k]
              /\ neuron_output'[k] =
                     IF pc = "output" THEN fwd.no ELSE neuron_output[k]
              /\ error_delta'[k] =
                     IF pc = "learning"
                     THEN Diffuse(error_delta[k], neuron_output[k],
                                  target_pattern_global[loop_pattern][k])
                     ELSE error_delta[k]
              /\ weights'[k] =
                     IF pc = "weight"
                     THEN OwnUpdate(weights[k], neuron_input[k],
                                    neuron_output[k], error_delta[k])
                     ELSE weights[k]]_vars

\* two sub-networks trained side by side that differ in their targets, in
\* their hidden activations and in what the update has changed
C11_Witness ==
    /\ JustUpdated
    /\ size_output > 1
    /\ \E j \in Nets, k \in Nets, h \in Hidden, s \in Sources :
          /\ j # k
          /\ target_pattern_global[loop_pattern][j]
                 # target_pattern_global[loop_pattern][k]
          /\ neuron_input[j][h] # neuron_input[k][h]
          /\ weights[k][h][s] # 0 /\ Change(k, h, s) # 0
          /\ Change(j, h, s) # Change(k, h, s)

RECURSIVE InputSum(_, _, _)
\* the part of the weighted sum of lines 116-118 that comes from the bias
\* and input slots connection .. size_input + 1
InputSum(row, ni, connection) ==
    IF connection > size_input + 1 THEN 0
    ELSE Mul(row[connection], ni[connection])
         + InputSum(row, ni, connection + 1)

\* calculate_output has just returned
JustForwarded == pc = "learning"

\* C12: with timesteps = 1 a forward pass reads no hidden or output
\* activation as a source, whatever the flags: every output it produces is
\* the sigmoid of the weighted bias and input slots alone.
C12_PureFeedForward ==
    (JustForwarded /\ timesteps = 1) =>
        \A n \in Nets, c \in Targets :
            neuron_output[n][c]
                = sigmoid(InputSum(weights[n][c], neuron_input[n], 0))

\* the activations of a sub-network on which no forward pass has run: the
\* zeroed globals with the two bias slots set by init_network
FreshActivations ==
    [ni |-> [c \in NeuronIdx |-> IF c \in {0, 1} THEN bias ELSE 0],
     no |-> ZeroVector]

\* C13: with loop cutting on, what calculate_output leaves in neuron_input
\* and neuron_output is what it computes from the weights, the bias and the
\* input pattern on a network no earlier pattern has touched, whatever the
\* earlier patterns left behind.
C13_CleanState ==
    (JustForwarded /\ config_flags[6] = 1) =>
        \A n \in Nets :
            [ni |-> neuron_input[n], no |-> neuron_output[n]]
                = ForwardPass(weights[n], FreshActivations,
                              input_pattern_global[loop_pattern])

\* the pass of a later pattern through a hidden neuron that reaches the
\* output neuron and was left active by the pattern before
C13_Witness ==
    /\ JustForwarded
    /\ config_flags[6] = 1
    /\ loop_pattern > 0
    /\ input_pattern_global[loop_pattern]
           # input_pattern_global[loop_pattern - 1]
    /\ \E n \in Nets, h \in Hidden :
          /\ weights[n][OutputNeuron][h] # 0
          /\ neuron_input[n][h] # 0

\* the input slots: the sources that carry a pattern's features
Inputs == 2 .. (size_input + 1)

\* the neurons of the second hidden layer
SecondLayer == {c \in Targets : c > total_neurons + 1 - size_hidden2}

\* C14: a neuron of the second hidden layer has no connection from an input
\* slot, after init_network and in every state training reaches.
C14_SecondLayerNoInput ==
    Built =>
        \A n \in Nets, c \in SecondLayer, s \in Inputs : weights[n][c][s] = 0

\* a trained network whose second layer reads a first-layer neuron, beside
\* a first-layer neuron that reads an input
C14_Witness ==
    /\ JustUpdated
    /\ \E n \in Nets, c \in SecondLayer, h \in Hidden \ SecondLayer :
          /\ weights[n][c][h] # 0
          /\ \E s \in Inputs : weights[n][h][s] # 0 /\ Change(n, h, s) # 0

\* C15: with the multi-layer flag set the output neuron has no connection
\* from an input slot, after init_network and in every state training
\* reaches, whatever the other flags.
C15_OutputNoInput ==
    (Built /\ config_flags[7] = 1) =>
        \A n \in Nets, s \in Inputs : weights[n][OutputNeuron][s] = 0

\* a trained network with the flag set whose output neuron reads a hidden
\* neuron that reads an input
C15_Witness ==
    /\ JustUpdated
    /\ config_flags[7] = 1
    /\ \E n \in Nets, h \in Hidden, s \in Inputs :
          /\ weights[n][OutputNeuron][h] # 0
          /\ weights[n][h][s] # 0
          /\ Change(n, OutputNeuron, s) # 0

\* a nonzero weight as the earlier rules of the loop body may leave it
DrawnWeight == [w |-> Unit, rng |-> rand_state]

\* C16: with the inhibitory-inputs flag cleared, the rule of init_network
\* zeroes a weight exactly when its source is an odd index among the input
\* slots 3, 5, ..., size_input + 1; a weight from a bias slot (0 or 1) passes
\* the rule unchanged and ends as its drawn value times the polarity product.
C16_OddInputsOnly ==
    (JustBuilt /\ config_flags[11] = 0) =>
        \A c \in Targets, s \in Sources :
            LET after == InhibitoryInputControl(DrawnWeight, c, s,
                                                total_neurons)
            IN  /\ after.w = 0 <=> (s \in Inputs /\ s % 2 = 1)
                /\ s \in {0, 1} =>
                       TypeConstraint(after, c, s, total_neurons).w
                           = DrawnWeight.w * weights_oscillating[s]
                                 * weights_oscillating[c]

RECURSIVE SlotsKept(_, _, _)
\* timesteps timestep .. timesteps of lines 107-131, started on the
\* activations a, leave the bias and input slots of neuron_input as they are
SlotsKept(timestep, w, a) ==
    IF timestep > timesteps THEN TRUE
    ELSE LET b == Timestep(w, a)
         IN  /\ \A c \in 0 .. (size_input + 1) : b.ni[c] = a.ni[c]
             /\ SlotsKept(timestep + 1, w, b)

\* C17: after calculate_output both slots 2k+2 and 2k+3 of every
\* sub-network hold feature k of the pattern, and no timestep of the pass
\* changes a bias or input slot.
C17_InputSlots ==
    /\ JustForwarded =>
          \A n \in Nets, k \in 0 .. ((size_input \div 2) - 1) :
              /\ neuron_input[n][2 * k + 2] = input_pattern_global[loop_pattern][k]
              /\ neuron_input[n][2 * k + 3] = input_pattern_global[loop_pattern][k]
    /\ pc = "output" =>
          \A n \in Nets :
              SlotsKept(1, weights[n],
                  [ni |-> HiddenInitialization(
                              DistributeInput(neuron_input[n],
                                  input_pattern_global[loop_pattern])),
                   no |-> neuron_output[n]])

\* a pass of two timesteps over a pattern of two different features that
\* replaced another pattern's features
C17_Witness ==
    /\ JustForwarded
    /\ timesteps > 1
    /\ size_input > 2
    /\ loop_pattern > 0
    /\ input_pattern_global[loop_pattern][0]
           # input_pattern_global[loop_pattern][1]
    /\ input_pattern_global[loop_pattern]
           # input_pattern_global[loop_pattern - 1]
    /\ \E n \in Nets, c \in Targets : neuron_input[n][c] # 0

\* C18: in every state after init_network both bias slots of every
\* sub-network hold bias: no forward pass, diffusion, weight update or epoch
\* reset writes them.
C18_BiasSlots ==
    Built =>
        \A n \in Nets : neuron_input[n][0] = bias /\ neuron_input[n][1] = bias

\* the start of a later epoch, after passes with loop cutting and the
\* counters' reset
C18_Witness ==
    /\ pc = "epoch"
    /\ epoch_counter > 0
    /\ config_flags[6] = 1
    /\ \E n \in Nets, c \in Targets : neuron_input[n][c] # bias

\* the first calculate_network call of an epoch is about to begin
EpochStart == pc = FirstPhase /\ loop_pattern = 0 /\ phases_done = << >>

\* C19: when the first calculate_network call of an epoch begins both
\* counters are 0, and no step of calculate_output, calculate_learning or
\* calculate_weight decreases error_total or error_count.
C19_CountersPerEpoch ==
    [][/\ EpochStart' => error_total' = 0 /\ error_count' = 0
       /\ pc \in {"output", "learning", "weight"} =>
              error_total' >= error_total /\ error_count' >= error_count]_vars

\* the start of a later epoch while the last diffusion of the epoch before
\* still shows an error above 0.5
C19_Witness ==
    /\ EpochStart
    /\ epoch_counter > 1
    /\ \E n \in Nets :
          error_delta[n][OutputNeuron][0] + error_delta[n][OutputNeuron][1]
              > Half

\* training examples calculate_learning has processed since the counters
\* were last reset
Processed ==
    IF pc = "epoch" THEN 0
    ELSE loop_pattern
         + (IF \E i \in 1 .. Len(phases_done) : phases_done[i] = "learning"
            THEN 1 ELSE 0)

\* C20: error_count counts the training examples processed since the last
\* reset whose error exceeds 0.5, so it never exceeds the number of examples
\* processed in the epoch, which is at most pattern_count, whatever
\* size_output is.
C20_CountBounded ==
    Built => error_count <= Processed /\ Processed <= pattern_count

\* write_weight_neuron is about to run at the end of an epoch
EpochEnd == pc = "check"

\* C21: at the end of an epoch within the iteration limit, training stops
\* exactly when error_total is below the configured error_residual.
C21_ConfiguredThreshold ==
    [][(EpochEnd /\ epoch_counter <= EpochLimit) =>
           (pc' = "done" <=> error_total < error_residual)]_vars

\* the dimensions init_network has stored break a structural rule
InvalidDimensions ==
    \/ size_input % 2 # 0
    \/ size_hidden < 0
    \/ size_hidden2 < 0
    \/ size_output < 0
    \/ size_hidden2 > size_hidden

\* C22: init_network rejects dimensions that break a structural rule: it
\* builds no topology and no weights for them.
C22_RejectsInvalid ==
    (Built /\ InvalidDimensions) =>
        /\ \A i \in NeuronIdx : weights_oscillating[i] = 0
        /\ \A n \in NetIdx, c \in NeuronIdx, s \in NeuronIdx :
               weights[n][c][s] = 0

\* the connection lies in the rows and columns rule 6 draws again
Redrawn(c, s, tn) == c > tn + 1 - size_hidden2 /\ s >= size_input + 3

\* the calls of random() the inner loop has made in row c before column s
RowDraws(c, s, tn) ==
    s + (IF c > tn + 1 - size_hidden2 /\ s > size_input + 3
         THEN s - (size_input + 3) ELSE 0)
      + (IF config_flags[3] = 0 /\ c < s THEN 1 ELSE 0)

RECURSIVE TargetDraws(_, _)
\* the calls of random() one sub-network has made before row c
TargetDraws(c, tn) ==
    IF c <= size_input + 2 THEN 0
    ELSE TargetDraws(c - 1, tn) + RowDraws(c - 1, tn + 2, tn)

\* the calls of random() init_network has made before it reaches
\* weights[net][c][s]
DrawsBefore(net, c, s, tn) ==
    net * TargetDraws(tn + 2, tn) + TargetDraws(c, tn) + RowDraws(c, s, tn)

RECURSIVE Stream(_, _)
\* the states of rand() from the sequence's last element on, count more
Stream(states, count) ==
    IF count = 0 THEN states
    ELSE LET n == Append(states, rand(states[Len(states)]))
         IN  IF Computed(n) THEN Stream(n, count - 1) ELSE n

\* the value the rules leave in weights[net][c][s], read off the stream of
\* rand() states by the position of the draw that is written last
Constructed(stream, net, c, s, tn) ==
    LET first == DrawsBefore(net, c, s, tn) + 1
        blocked ==
            \/ c > tn + 1 - size_hidden2 /\ s < size_input + 2 /\ s >= 2
            \/ config_flags[6] = 1 /\ c # s /\ c > size_input + 2
               /\ s > size_input + 1
            \/ config_flags[6] = 1 /\ s = size_input + 2
            \/ config_flags[7] = 1 /\ s >= 2 /\ s < size_input + 2
               /\ c = size_input + 2
        magnitude ==
            IF config_flags[11] = 0 /\ s < size_input + 2 /\ (s % 2) = 1
            THEN 0
            ELSE IF c = s
            THEN IF config_flags[3] = 1 THEN 0
                 ELSE Mul(init_range_weight,
                          random(stream[first + 1 + (IF Redrawn(c, s, tn)
                                                     THEN 1 ELSE 0)]))
            ELSE IF Redrawn(c, s, tn)
            THEN Mul(init_range_weight, random(stream[first + 1]))
            ELSE IF blocked THEN 0
            ELSE Mul(IF s < 2 THEN init_range_threshold
                     ELSE init_range_weight, random(stream[first]))
    IN  magnitude * (Polarity(s) * Polarity(c))

\* C23: the weights init_network builds are a function of the state rand()
\* is in when it starts (the seed and the draws consumed before), of the
\* dimensions, the flags and the two ranges: every entry inside the network
\* is the draw at its position in the stream, every entry outside stays as
\* it was.
C23_SeedDetermined ==
    [][pc = "init" =>
          LET tn == size_input + 1 + (size_hidden + size_hidden2)
              stream == Stream(<< rand_state >>,
                               size_output * TargetDraws(tn + 2, tn))
          IN  \A n \in NetIdx, c \in NeuronIdx, s \in NeuronIdx :
                  weights'[n][c][s] =
                      IF n < size_output /\ c >= size_input + 2
                         /\ c <= tn + 1 /\ s <= tn + 1
                      THEN Constructed(stream, n, c, s, tn)
                      ELSE weights[n][c][s]]_vars

\* a built network with two sub-networks, a second layer and self-loops, so
\* that rows draw once, twice and three times per connection
C23_Witness ==
    /\ JustBuilt
    /\ size_output = 2
    /\ size_hidden2 >= 1
    /\ size_hidden > size_hidden2
    /\ config_flags[3] = 0
    /\ \A n \in Nets : weights[n][total_neurons + 1][total_neurons + 1] # 0

\* C24: at the end of epoch n write_weight_neuron returns 1 exactly when
\* n > 10000 or error_total < 0.1; it leaves both counters as they are when it
\* returns 1 and sets both to 0 when it returns 0; so epoch_counter, which
\* every pass of the loop increments, never passes 10001.
C24_Terminates ==
    /\ [][EpochEnd =>
            /\ pc' = "done" <=>
                   (epoch_counter > EpochLimit \/ error_total < ConvergedBelow)
            /\ pc' = "done" =>
                   (error_total' = error_total /\ error_count' = error_count)
            /\ pc' # "done" =>
                   (pc' = "epoch" /\ error_total' = 0 /\ error_count' = 0)]_vars
    /\ [](epoch_counter <= EpochLimit + 1)

\* training stopped by the iteration limit, with the last epoch's error
\* still in the counters
C24_Witness ==
    /\ pc = "done"
    /\ epoch_counter = EpochLimit + 1
    /\ error_total >= ConvergedBelow

\* the globals of ed_main.c that none of the three operations assigns
Configuration ==
    << topology, parameters, patterns, weights_oscillating, epoch_counter,
       loop_pattern, rand_state >>

\* C25: calculate_output writes only neuron_input[2 .. total_neurons + 1] and
\* neuron_output[size_input + 2 .. total_neurons + 1]; calculate_learning
\* writes only error_delta, error_total and error_count; calculate_weight
\* writes only weights.
C25_WriteSets ==
    [][/\ pc = "output" =>
            /\ UNCHANGED << Configuration, error_delta, counters, weights >>
            /\ \A n \in NetIdx, c \in NeuronIdx :
                  /\ c \notin 2 .. (total_neurons + 1) =>
                         neuron_input'[n][c] = neuron_input[n][c]
                  /\ c \notin Targets =>
                         neuron_output'[n][c] = neuron_output[n][c]
       /\ pc = "learning" =>
              UNCHANGED << Configuration, activations, weights >>
       /\ pc = "weight" =>
              UNCHANGED << Configuration, activations, error_delta,
                           counters >>]_vars

\* a pattern of the second epoch has gone through the three operations of a
\* network with hidden neurons: activations, error table and counters set
C25_Witness ==
    /\ JustUpdated
    /\ epoch_counter = 2
    /\ Hidden # {}
    /\ \A n \in Nets :
          /\ \A c \in Targets : neuron_output[n][c] # 0
          /\ \E c \in Hidden, k \in 0 .. 1 : error_delta[n][c][k] # 0
    /\ error_total > 0

\* the parameters, the two ranges and every input feature are non-negative
NonNegative ==
    /\ learning_rate >= 0
    /\ bias >= 0
    /\ error_amplification >= 0
    /\ init_range_weight >= 0
    /\ init_range_threshold >= 0
    /\ \A p \in PatternIdx, f \in FeatureIdx : input_pattern_global[p][f] >= 0

\* C26: in selective mode with non-negative parameters, ranges and inputs, no
\* step after init_network lowers the magnitude of a weight or changes its
\* sign, and a weight is zero after the step exactly when it was before: the
\* nonzero connections stay those init_network left.
C26_Ratchet ==
    [][(Built /\ config_flags[10] = 0 /\ NonNegative) =>
          \A n \in Nets, c \in Targets, s \in Sources :
              /\ fabs(weights'[n][c][s]) >= fabs(weights[n][c][s])
              /\ signage(weights'[n][c][s]) = signage(weights[n][c][s])
                     \/ weights[n][c][s] = 0
              /\ weights'[n][c][s] = 0 <=> weights[n][c][s] = 0]_vars

\* selective training has pushed a positive and a negative weight past the
\* range init_network draws them from
C26_Witness ==
    /\ JustUpdated
    /\ config_flags[10] = 0
    /\ NonNegative
    /\ \E n \in Nets, c \in Targets, s \in Sources \ {0, 1} :
           weights[n][c][s] > init_range_weight
    /\ \E n \in Nets, c \in Targets, s \in Sources \ {0, 1} :
           weights[n][c][s] < -init_range_weight

\* target - prediction of sub-network n for the pattern being processed
StepError(n) ==
    ErrorPrediction(neuron_output[n], target_pattern_global[loop_pattern][n])

\* C27: in a calculate_weight step of selective mode a sub-network whose
\* error is positive leaves every weight from a source of polarity -1
\* unchanged, one whose error is negative leaves every weight from a source
\* of polarity +1 unchanged; in either mode a sub-network whose error is
\* exactly 0 changes no weight.
C27_ChannelOfSign ==
    [][pc = "weight" =>
          \A n \in Nets, c \in Targets, s \in Sources :
              /\ (config_flags[10] = 0 /\ StepError(n) > 0
                  /\ weights_oscillating[s] = -1) =>
                     weights'[n][c][s] = weights[n][c][s]
              /\ (config_flags[10] = 0 /\ StepError(n) < 0
                  /\ weights_oscillating[s] = 1) =>
                     weights'[n][c][s] = weights[n][c][s]
              /\ StepError(n) = 0 =>
                     weights'[n][c][s] = weights[n][c][s]]_vars

\* a selective update has just run on two sub-networks whose errors have
\* opposite signs, in a network with hidden neurons
C27_Witness ==
    /\ JustUpdated
    /\ config_flags[10] = 0
    /\ Hidden # {}
    /\ \E n \in Nets : StepError(n) > 0
    /\ \E n \in Nets : StepError(n) < 0

\* one of the rules 3, 4, 5, 7 and 8 writes 0 to weights[..][c][s]
ForcedZero(c, s, tn) ==
    \/ SecondLayerInputBlocking(DrawnWeight, c, s, tn).w = 0
    \/ LoopCutting(DrawnWeight, c, s, tn).w = 0
    \/ LoopCuttingOutput(DrawnWeight, c, s, tn).w = 0
    \/ MultiLayerInputBlocking(DrawnWeight, c, s, tn).w = 0
    \/ c = s /\ config_flags[3] = 1
    \/ InhibitoryInputControl(DrawnWeight, c, s, tn).w = 0

\* the position in the stream of the draw written last to weights[net][c][s]
LastDraw(net, c, s, tn) ==
    DrawsBefore(net, c, s, tn) + 1
        + (IF Redrawn(c, s, tn) THEN 1 ELSE 0)
        + (IF c = s /\ config_flags[3] = 0 THEN 1 ELSE 0)

\* C28: with both ranges positive, init_network leaves a nonzero weight on
\* every connection that none of the rules 3, 4, 5, 7 and 8 writes 0 to,
\* whatever random() returns.  A weight counts as zero here only when the
\* value random() returned for it is exactly 0, i.e. rand() % 10000 = 0.
C28_EnabledNonzero ==
    [][(pc = "init" /\ init_range_weight > 0 /\ init_range_threshold > 0) =>
          LET tn == size_input + 1 + (size_hidden + size_hidden2)
              stream == Stream(<< rand_state >>,
                               size_output * TargetDraws(tn + 2, tn))
          IN  \A n \in NetIdx, c \in NeuronIdx, s \in NeuronIdx :
                  (/\ n < size_output
                   /\ c >= size_input + 2 /\ c <= tn + 1 /\ s <= tn + 1
                   /\ ~ForcedZero(c, s, tn)) =>
                      \/ weights'[n][c][s] # 0
                      \/ rand(stream[LastDraw(n, c, s, tn)]) % 10000 # 0]_vars

\* the activations of sub-network n as they stand
Activations(n) == [ni |-> neuron_input[n], no |-> neuron_output[n]]

\* the activations of sub-network n after the second timestep of the pass
\* that has just run: the pass itself when it made two, one more timestep
\* when it made one
AfterTwo(n) ==
    IF timesteps >= 2 THEN Activations(n)
    ELSE Timestep(weights[n], Activations(n))

\* C29: with loop cutting and self-loop cutting on and no second hidden
\* layer, a further timestep after the second changes no activation: every
\* pass of T >= 2 timesteps on the same weights and pattern ends in the state
\* of the pass of 2, with the same hidden outputs and the same prediction.
C29_FixedPoint ==
    (/\ JustForwarded
     /\ config_flags[6] = 1
     /\ config_flags[3] = 1
     /\ size_hidden2 = 0) =>
        \A n \in Nets : Timestep(weights[n], AfterTwo(n)) = AfterTwo(n)

\* a pass of two timesteps on a network with a hidden neuron whose second
\* timestep moved the prediction off the value the first one gave
C29_Witness ==
    /\ JustForwarded
    /\ config_flags[6] = 1
    /\ config_flags[3] = 1
    /\ size_hidden2 = 0
    /\ timesteps = 2
    /\ Hidden # {}
    /\ \E n \in Nets :
           neuron_output[n][OutputNeuron]
               # sigmoid(InputSum(weights[n][OutputNeuron], neuron_input[n], 0))

\* values written over a sub-network's hidden weights and activations
Perturbations == {-Unit, Half, 2 * Unit}

\* the matrix w with v in every row and every column of a hidden neuron
HiddenWeightsSet(w, v) ==
    [c \in NeuronIdx |->
        [s \in NeuronIdx |->
            IF c \in Hidden \/ s \in Hidden THEN v ELSE w[c][s]]]

\* the activations a with v in both slots of every hidden neuron
HiddenActivationsSet(a, v) ==
    [ni |-> [c \in NeuronIdx |-> IF c \in Hidden THEN v ELSE a.ni[c]],
     no |-> [c \in NeuronIdx |-> IF c \in Hidden THEN v ELSE a.no[c]]]

\* C30: with loop cutting on and timesteps = 1 the prediction of a forward
\* pass is the one the pass gives with any other values in the hidden
\* neurons' weights and activations; with the multi-layer flag set as well it
\* is the one the pass gives on any other input pattern.
C30_BiasOnly ==
    [][(pc = "output" /\ config_flags[6] = 1 /\ timesteps = 1) =>
          \A n \in Nets :
              /\ \A v \in Perturbations :
                     ForwardPass(HiddenWeightsSet(weights[n], v),
                                 HiddenActivationsSet(Activations(n), v),
                                 input_pattern_global[loop_pattern])
                         .no[OutputNeuron]
                     = neuron_output'[n][OutputNeuron]
              /\ config_flags[7] = 1 =>
                     \A q \in [FeatureIdx -> {0, Half, Unit}] :
                         ForwardPass(weights[n], Activations(n), q)
                             .no[OutputNeuron]
                         = neuron_output'[n][OutputNeuron]]_vars

\* a single-timestep pass on the second pattern of a network with both flags
\* set, whose hidden neuron is active and connected to the output neuron and
\* whose two patterns differ
C30_Witness ==
    /\ JustForwarded
    /\ config_flags[6] = 1
    /\ config_flags[7] = 1
    /\ timesteps = 1
    /\ loop_pattern = 1
    /\ input_pattern_global[0] # input_pattern_global[1]
    /\ \A n \in Nets : \E h \in Hidden :
           /\ weights[n][OutputNeuron][h] # 0
           /\ neuron_output[n][h] # 0

=============================================================================
